---- MODULE Spec2Model ----
(***************************************************************************)
(* Model of kzahel/holegame: the Game render loop (Game.animate), the      *)
(* World tick (World.update) and the Hole (ring placement, input           *)
(* integration, swallow test, the stencil triple of its visuals).          *)
(*                                                                         *)
(* Numbers.  The program computes with IEEE doubles; the model uses fixed  *)
(* point: lengths are in 1/100 world units, speeds in 1/100 units per      *)
(* second, accelerations in 1/100 units per second squared, times in      *)
(* milliseconds.  So radius 1.5 is 150, objRadius 0.5 is 50, the depth     *)
(* threshold -5 is -500 and huge = 50 is 5000.  Divisions round towards    *)
(* zero and square roots are floor square roots.                           *)
(***************************************************************************)
EXTENDS Integers, Sequences, FiniteSets, TLC

----------------------------------------------------------------------------
(* Bounds of the model *)

\* ticks of Game.animate explored by Spec and SpecApi
MaxFrames == 2
\* keydown/keyup events that change Hole.keys, explored by Spec and SpecApi
MaxKeyEvents == 1
\* the hole is driven no farther than this from the origin in SpecDrive
MaxDrive == 4200
\* ticks of Game.animate explored by SpecMove
MaxMoveFrames == 3
\* ticks of Game.animate explored by SpecKeys
MaxKeyFrames == 2
\* SpecHold follows a run until this many ms after the last key event
MaxHold == 600
\* ticks of Game.animate explored by SpecPause
MaxPauseFrames == 3

----------------------------------------------------------------------------
(* Program constants *)

\* Hole.radius = 1.5
radius0 == 150
\* Hole.maxSpeed = 8
maxSpeed == 800
\* Hole.acceleration = 40
acceleration == 4000
\* Hole.friction = 20
friction == 2000
\* setupPhysics: groundSize = 100, groundThickness = 1
groundSize == 10000
groundThickness == 100
\* updatePhysicsHolePos: huge = 50
huge == 5000
\* checkSwallow: objRadius = 0.5, depth test mesh.position.y < -5
objRadius == 50
swallowDepth == -500
\* World.addPhysicsObject: spawnY = 5
spawnY == 500
\* Game.animate: Math.min(elapsed / 1000, 0.1), in milliseconds
dtCap == 100

\* the key codes Hole.handleInput reads
Keys == {"ArrowUp", "KeyW", "ArrowDown", "KeyS",
         "ArrowLeft", "KeyA", "ArrowRight", "KeyD"}

\* one code per direction, the codes pressed in Spec and SpecApi
PlayKeys == {"ArrowUp", "KeyS", "ArrowLeft", "KeyD"}

\* the swallowable objects World.addDecorations registered
Objs == {"o1", "o2"}

\* what the scene and the physics world hold besides the swallowable objects
StaticChildren == {"ambientLight", "dirLight", "holeGroup", "ground"}
RingBodies == {"g0", "g1", "g2", "g3"}

----------------------------------------------------------------------------
(* Arithmetic *)

Abs(a) == IF a < 0 THEN -a ELSE a

Min(a, b) == IF a < b THEN a ELSE b

\* a / b rounded towards zero (b > 0)
Quot(a, b) == IF a >= 0 THEN a \div b ELSE -((-a) \div b)

RECURSIVE SqrtSearch(_, _, _)
SqrtSearch(n, lo, hi) ==
    IF lo >= hi THEN lo
    ELSE LET mid == (lo + hi + 1) \div 2
         IN  IF mid * mid <= n THEN SqrtSearch(n, mid, hi)
                               ELSE SqrtSearch(n, lo, mid - 1)

\* floor(Math.sqrt(n)) for 0 <= n < 2^31
Sqrt(n) == SqrtSearch(n, 0, 46340)

\* ceil(Math.sqrt(n)): the divisor of a normalisation, so that a normalised
\* vector is never longer than the length asked for
CeilSqrt(n) == LET s == Sqrt(n) IN IF s * s = n THEN s ELSE s + 1

\* THREE.Vector2.length(), rounded down: Length(v) < k iff the real length < k
Length(x, y) == Sqrt(x * x + y * y)

LengthSq(x, y) == x * x + y * y

Vec2(x, y) == [x |-> x, y |-> y]

Vec3(x, y, z) == [x |-> x, y |-> y, z |-> z]

\* THREE.Vector2: normalize().multiplyScalar(s), i.e. v / (|v| || 1) * s
SetLength(v, s) ==
    LET len == CeilSqrt(LengthSq(v.x, v.y))
        d   == IF len = 0 THEN 1 ELSE len
    IN  Vec2(Quot(v.x * s, d), Quot(v.y * s, d))

----------------------------------------------------------------------------
(* Hole: pure parts *)

\* the mutated placement: the -X box is placed with r added instead of
\* subtracted
RingPlacementSign(pos, r) ==
    LET x == pos.x
        z == pos.z
        yStrata == -(groundThickness \div 2)
    IN  [n \in 0..3 |->
            CASE n = 0 -> Vec3(x + r + huge, yStrata, z)
              [] n = 1 -> Vec3(x + r - huge, yStrata, z)
              [] n = 2 -> Vec3(x, yStrata, z - r - huge)
              [] n = 3 -> Vec3(x, yStrata, z + r + huge)]

\* the mutated placement: the two Z boxes are exchanged
RingPlacementSwapZ(pos, r) ==
    LET x == pos.x
        z == pos.z
        yStrata == -(groundThickness \div 2)
    IN  [n \in 0..3 |->
            CASE n = 0 -> Vec3(x + r + huge, yStrata, z)
              [] n = 1 -> Vec3(x - r - huge, yStrata, z)
              [] n = 2 -> Vec3(x, yStrata, z + r + huge)
              [] n = 3 -> Vec3(x, yStrata, z - r - huge)]

\* the mutated placement: the radius term is left out
RingPlacementNoRadius(pos, r) ==
    LET x == pos.x
        z == pos.z
        yStrata == -(groundThickness \div 2)
    IN  [n \in 0..3 |->
            CASE n = 0 -> Vec3(x + huge, yStrata, z)
              [] n = 1 -> Vec3(x - huge, yStrata, z)
              [] n = 2 -> Vec3(x, yStrata, z - huge)
              [] n = 3 -> Vec3(x, yStrata, z + huge)]

\* Hole.updatePhysicsHolePos: the centres of groundBodies[0..3] for the hole
\* at pos with radius r
RingPlacement(pos, r) ==
    LET x == pos.x
        z == pos.z
        yStrata == -(groundThickness \div 2)
    IN  [n \in 0..3 |->
            CASE n = 0 -> Vec3(x + r + huge, yStrata, z)
              [] n = 1 -> Vec3(x - r - huge, yStrata, z)
              [] n = 2 -> Vec3(x, yStrata, z - r - huge)
              [] n = 3 -> Vec3(x, yStrata, z + r + huge)]

\* the mutated input: the letter codes are not read
InputDirArrowsOnly(ks) ==
    LET up    == "ArrowUp" \in ks
        down  == "ArrowDown" \in ks
        left  == "ArrowLeft" \in ks
        right == "ArrowRight" \in ks
    IN  Vec2((IF right THEN 1000 ELSE 0) - (IF left THEN 1000 ELSE 0),
             (IF down THEN 1000 ELSE 0) - (IF up THEN 1000 ELSE 0))

\* the mutated input: of two opposite directions the first one read wins
InputDirFirstWins(ks) ==
    LET up    == "ArrowUp" \in ks \/ "KeyW" \in ks
        down  == "ArrowDown" \in ks \/ "KeyS" \in ks
        left  == "ArrowLeft" \in ks \/ "KeyA" \in ks
        right == "ArrowRight" \in ks \/ "KeyD" \in ks
    IN  Vec2(IF left THEN -1000 ELSE IF right THEN 1000 ELSE 0,
             IF up THEN -1000 ELSE IF down THEN 1000 ELSE 0)

\* Hole.handleInput, the input vector before normalisation (1.0 is 1000)
InputDir(ks) ==
    LET up    == "ArrowUp" \in ks \/ "KeyW" \in ks
        down  == "ArrowDown" \in ks \/ "KeyS" \in ks
        left  == "ArrowLeft" \in ks \/ "KeyA" \in ks
        right == "ArrowRight" \in ks \/ "KeyD" \in ks
    IN  Vec2((IF right THEN 1000 ELSE 0) - (IF left THEN 1000 ELSE 0),
             (IF down THEN 1000 ELSE 0) - (IF up THEN 1000 ELSE 0))

\* the mutated integration: without input the hole stops at once
NewSpeedInstantStop(ks, speed, dt) ==
    LET raw   == InputDir(ks)
        input == IF LengthSq(raw.x, raw.y) > 0 THEN SetLength(raw, 1000) ELSE raw
        moved ==
            IF LengthSq(input.x, input.y) > 0
            THEN Vec2(speed.x + Quot(input.x * acceleration * dt, 1000000),
                      speed.y + Quot(input.y * acceleration * dt, 1000000))
            ELSE Vec2(0, 0)
    IN  IF LengthSq(moved.x, moved.y) > maxSpeed * maxSpeed
        THEN SetLength(moved, maxSpeed)
        ELSE moved

\* the mutated integration: friction is subtracted without the test against
\* the friction step
NewSpeedOvershoot(ks, speed, dt) ==
    LET raw   == InputDir(ks)
        input == IF LengthSq(raw.x, raw.y) > 0 THEN SetLength(raw, 1000) ELSE raw
        frictionStep == Quot(friction * dt, 1000)
        moved ==
            IF LengthSq(input.x, input.y) > 0
            THEN Vec2(speed.x + Quot(input.x * acceleration * dt, 1000000),
                      speed.y + Quot(input.y * acceleration * dt, 1000000))
            ELSE LET back == SetLength(speed, frictionStep)
                 IN  Vec2(speed.x - back.x, speed.y - back.y)
    IN  IF LengthSq(moved.x, moved.y) > maxSpeed * maxSpeed
        THEN SetLength(moved, maxSpeed)
        ELSE moved

\* the mutated integration: the speed is not capped
NewSpeedNoCap(ks, speed, dt) ==
    LET raw   == InputDir(ks)
        input == IF LengthSq(raw.x, raw.y) > 0 THEN SetLength(raw, 1000) ELSE raw
        frictionStep == Quot(friction * dt, 1000)
    IN  IF LengthSq(input.x, input.y) > 0
        THEN Vec2(speed.x + Quot(input.x * acceleration * dt, 1000000),
                  speed.y + Quot(input.y * acceleration * dt, 1000000))
        ELSE IF Length(speed.x, speed.y) < frictionStep
             THEN Vec2(0, 0)
             ELSE LET back == SetLength(speed, frictionStep)
                  IN  Vec2(speed.x - back.x, speed.y - back.y)

\* Hole.handleInput, the new currentSpeed
NewSpeed(ks, speed, dt) ==
    LET raw   == InputDir(ks)
        input == IF LengthSq(raw.x, raw.y) > 0 THEN SetLength(raw, 1000) ELSE raw
        frictionStep == Quot(friction * dt, 1000)
        moved ==
            IF LengthSq(input.x, input.y) > 0
            THEN Vec2(speed.x + Quot(input.x * acceleration * dt, 1000000),
                      speed.y + Quot(input.y * acceleration * dt, 1000000))
            ELSE IF Length(speed.x, speed.y) < frictionStep
                 THEN Vec2(0, 0)
                 ELSE LET back == SetLength(speed, frictionStep)
                      IN  Vec2(speed.x - back.x, speed.y - back.y)
    IN  IF LengthSq(moved.x, moved.y) > maxSpeed * maxSpeed
        THEN SetLength(moved, maxSpeed)
        ELSE moved

\* Hole.handleInput, the new mesh.position (y is never touched)
NewPos(pos, speed, dt) ==
    Vec3(pos.x + Quot(speed.x * dt, 1000), pos.y, pos.z + Quot(speed.y * dt, 1000))

\* the mutated test: both comparisons are not strict
SwallowTestLoose(m, hp, r) ==
    LET dx == m.x - hp.x
        dz == m.z - hp.z
    IN  /\ r >= objRadius
        /\ LengthSq(dx, dz) <= (r - objRadius) * (r - objRadius)
        /\ m.y <= swallowDepth

\* Hole.checkSwallow, the two nested conditions
SwallowTest(m, hp, r) ==
    LET dx   == m.x - hp.x
        dz   == m.z - hp.z
        dist == Length(dx, dz)
    IN  dist + objRadius < r /\ m.y < swallowDepth

----------------------------------------------------------------------------
(* Hole.setupVisuals and the renderer *)

\* the three primitives of the stencil triple
Prims == {"mask", "ground", "interior"}

\* the mutated setup: the mask keeps the default renderOrder 0
setupVisualsMaskUnordered(r) ==
    [ground   |-> [renderOrder |-> 0, stencilFunc |-> "NotEqual",
                   stencilRef |-> 1, stencilZPass |-> "Keep", radius |-> 0],
     mask     |-> [renderOrder |-> 0, stencilFunc |-> "Always",
                   stencilRef |-> 1, stencilZPass |-> "Replace", radius |-> r],
     interior |-> [renderOrder |-> 1, stencilFunc |-> "Equal",
                   stencilRef |-> 1, stencilZPass |-> "Keep", radius |-> r]]

\* the mutated setup: the ground material has no stencil test
setupVisualsGroundUntested(r) ==
    [ground   |-> [renderOrder |-> 0, stencilFunc |-> "Always",
                   stencilRef |-> 1, stencilZPass |-> "Keep", radius |-> 0],
     mask     |-> [renderOrder |-> -1, stencilFunc |-> "Always",
                   stencilRef |-> 1, stencilZPass |-> "Replace", radius |-> r],
     interior |-> [renderOrder |-> 1, stencilFunc |-> "Equal",
                   stencilRef |-> 1, stencilZPass |-> "Keep", radius |-> r]]

\* the mutated setup: the interior shell is built one unit wide
setupVisualsUnitShell(r) ==
    [ground   |-> [renderOrder |-> 0, stencilFunc |-> "NotEqual",
                   stencilRef |-> 1, stencilZPass |-> "Keep", radius |-> 0],
     mask     |-> [renderOrder |-> -1, stencilFunc |-> "Always",
                   stencilRef |-> 1, stencilZPass |-> "Replace", radius |-> r],
     interior |-> [renderOrder |-> 1, stencilFunc |-> "Equal",
                   stencilRef |-> 1, stencilZPass |-> "Keep", radius |-> 100]]

\* Hole.setupVisuals for radius r: the ground plane (renderOrder left at the
\* default 0), the mask disk CircleGeometry(r, 32) and the interior shell
\* CylinderGeometry(r, r, 5, 32, 1, true); all three use stencilRef = 1
setupVisuals(r) ==
    [ground   |-> [renderOrder |-> 0, stencilFunc |-> "NotEqual",
                   stencilRef |-> 1, stencilZPass |-> "Keep", radius |-> 0],
     mask     |-> [renderOrder |-> -1, stencilFunc |-> "Always",
                   stencilRef |-> 1, stencilZPass |-> "Replace", radius |-> r],
     interior |-> [renderOrder |-> 1, stencilFunc |-> "Equal",
                   stencilRef |-> 1, stencilZPass |-> "Keep", radius |-> r]]

\* screen samples, named by the ground-plane point they show
Pixels ==
    {Vec2(x, z) : x \in {-200, -100, 0, 100, 200}, z \in {-100, 0, 100}}

\* the stencil test of a material: func(ref, value in the buffer)
StencilPass(m, value) ==
    CASE m.stencilFunc = "Always"   -> TRUE
      [] m.stencilFunc = "Equal"    -> m.stencilRef = value
      [] m.stencilFunc = "NotEqual" -> m.stencilRef # value

\* the stencil buffer after a fragment that passed its tests
StencilWrite(m, value) ==
    IF m.stencilZPass = "Replace" THEN m.stencilRef ELSE value

\* primitive n is tested at sample p: the mask disk has fragments at the
\* points within its radius of the hole group; the tests of the ground plane
\* and of the interior shell are followed at every sample
Covers(vis, hp, n, p) ==
    n = "mask" =>
        LengthSq(p.x - hp.x, p.y - hp.z) <= vis.mask.radius * vis.mask.radius

\* WebGLRenderer: the opaque meshes sorted by renderOrder
DrawOrder(vis) ==
    CHOOSE s \in [1..3 -> Prims] :
        /\ {s[n] : n \in 1..3} = Prims
        /\ \A n \in 1..2 : vis[s[n]].renderOrder <= vis[s[n + 1]].renderOrder

\* one sample during a frame: the value in the stencil buffer and the
\* primitives whose stencil test passed, after the first k draws
RECURSIVE DrawSample(_, _, _, _)
DrawSample(vis, hp, p, k) ==
    IF k = 0 THEN [stencil |-> 0, passed |-> {}]
    ELSE LET before == DrawSample(vis, hp, p, k - 1)
             n      == DrawOrder(vis)[k]
         IN  IF Covers(vis, hp, n, p) /\ StencilPass(vis[n], before.stencil)
             THEN [stencil |-> StencilWrite(vis[n], before.stencil),
                   passed  |-> before.passed \cup {n}]
             ELSE before

\* renderer.render: stencil cleared to 0, then the three draws
RenderFrame(vis, hp) ==
    [p \in Pixels |-> DrawSample(vis, hp, p, 3).passed]

----------------------------------------------------------------------------
(* State *)

VARIABLES
    pc,             \* where the render loop is: "idle" between animation frames,
                    \* then "physics", "loop", "hole", "render" inside a tick
    dt,             \* Game.animate: deltaTime of the running tick, in ms
    keys,           \* Hole.keys: the codes whose entry is true
    holePos,        \* Hole.mesh.position
    currentSpeed,   \* Hole.currentSpeed
    radius,         \* Hole.radius
    groundBodies,   \* Hole.groundBodies[0..3].position
    objects,        \* World.objects, as the sequence of its entries
    idx,            \* the position of the for..of loop of World.update
    sceneChildren,  \* the children of the scene (mesh.parent === scene)
    physBodies,     \* the bodies of the physics world
    bodyPos,        \* obj.body.position
    meshPos,        \* obj.mesh.position
    frames,         \* ticks started so far
    keyEvents,      \* key events so far that changed keys
    rechecked,      \* the objects checkSwallow was called on again after
                    \* their removal (SpecApi)
    visuals,        \* the ground, holeMask and holeInterior meshes: geometry
                    \* radius, renderOrder and stencil state of the material
    drawn,          \* per screen sample, the primitives of the stencil triple
                    \* whose stencil test passed in the last rendered frame
    sinceKey,       \* time in ms covered by the ticks started since the key
                    \* state last changed (SpecHold)
    lastTime,       \* Game.lastTime, in ms before or after the latest reading
                    \* of performance.now(): the program uses the clock only
                    \* in currentTime - lastTime
    sinceFrame      \* real time in ms between the latest two readings of the
                    \* clock (SpecPause)

holeVars == <<holePos, currentSpeed, radius, groundBodies>>

vars == <<pc, dt, keys, holePos, currentSpeed, radius, groundBodies, objects,
          idx, sceneChildren, physBodies, bodyPos, meshPos, frames, keyEvents,
          rechecked, visuals, drawn, sinceKey,
          lastTime, sinceFrame>>

\* ground-plane positions World.addDecorations can draw for an object:
\* (Math.random() - 0.5) * 15 or * 18 on each axis, at least 2 from the origin
SpawnXZ == {<<-200, 0>>, <<-300, 400>>}

\* positions the physics engine can leave a body at after a step, relative to
\* the hole's start position (radius 1.5): inside and deep, at distance 1.0
\* (distance + 0.5 = radius) and deep, at distance 1.2 and deep, inside at
\* y = -2, inside at y = -5 exactly
PhysPositions ==
    {Vec3(0, -600, 0), Vec3(60, -600, 80), Vec3(120, -600, 0),
     Vec3(0, -200, 0), Vec3(0, -500, 0)}

\* elapsed real time between two animation frames, in ms
Elapsed == {50, 250}

----------------------------------------------------------------------------
(* Construction: new Game() -> new World() -> new Hole(), addDecorations() *)

Init ==
    /\ pc = "idle"
    /\ dt = 0
    /\ keys = {}
    /\ holePos = Vec3(0, 0, 0)
    /\ currentSpeed = Vec2(0, 0)
    /\ radius = radius0
    /\ groundBodies = RingPlacement(Vec3(0, 0, 0), radius0)
    /\ objects = <<"o1", "o2">>
    /\ idx = 1
    /\ sceneChildren = StaticChildren \cup Objs
    /\ physBodies = RingBodies \cup Objs
    /\ \E sp \in [Objs -> SpawnXZ] :
          /\ meshPos = [o \in Objs |-> Vec3(sp[o][1], 0, sp[o][2])]
          /\ bodyPos = [o \in Objs |-> Vec3(sp[o][1], spawnY, sp[o][2])]
    /\ frames = 0
    /\ keyEvents = 0
    /\ rechecked = {}
    /\ visuals = setupVisuals(radius0)
    /\ drawn = [p \in Pixels |-> {}]
    /\ sinceKey = 0
    /\ lastTime = 0
    /\ sinceFrame = 0

----------------------------------------------------------------------------
(* Input events (Hole.setupInput) *)

KeyDown(k) ==
    /\ pc = "idle"
    /\ keyEvents < MaxKeyEvents
    /\ keys' = keys \cup {k}
    /\ keyEvents' = IF k \in keys THEN keyEvents ELSE keyEvents + 1
    /\ UNCHANGED <<pc, dt, holeVars, objects, idx, sceneChildren, physBodies,
                   bodyPos, meshPos, frames, rechecked,
                   visuals, drawn, sinceKey,
                   lastTime, sinceFrame>>

KeyUp(k) ==
    /\ pc = "idle"
    /\ keyEvents < MaxKeyEvents
    /\ keys' = keys \ {k}
    /\ keyEvents' = IF k \in keys THEN keyEvents + 1 ELSE keyEvents
    /\ UNCHANGED <<pc, dt, holeVars, objects, idx, sceneChildren, physBodies,
                   bodyPos, meshPos, frames, rechecked,
                   visuals, drawn, sinceKey,
                   lastTime, sinceFrame>>

----------------------------------------------------------------------------
(* Game.animate and World.update *)

\* the mutated frame: lastTime is advanced by the capped step, not to the
\* current time
AnimateStartCarry(e) ==
    /\ pc = "idle"
    /\ dt' = Min(e - lastTime, dtCap)
    /\ lastTime' = (lastTime + dt') - e
    /\ pc' = "physics"
    /\ UNCHANGED <<keys, holeVars, objects, idx, sceneChildren, physBodies,
                   bodyPos, meshPos, keyEvents, rechecked, visuals, drawn>>

\* Game.animate up to the call of World.update, entered e ms after the
\* clock was read last (by the constructor, for the first frame): the clock
\* is read, the time step is the capped difference to lastTime, and
\* lastTime becomes the time read
AnimateStart(e) ==
    /\ pc = "idle"
    /\ dt' = Min(e - lastTime, dtCap)   \* (currentTime - lastTime), capped
    /\ lastTime' = 0                    \* lastTime = currentTime
    /\ pc' = "physics"
    /\ UNCHANGED <<keys, holeVars, objects, idx, sceneChildren, physBodies,
                   bodyPos, meshPos, keyEvents, rechecked, visuals, drawn>>

Animate(e) ==
    /\ frames < MaxFrames
    /\ frames' = frames + 1
    /\ AnimateStart(e)
    /\ UNCHANGED <<sinceKey, sinceFrame>>

\* physicsWorld.step: every dynamic body still in the world is moved by the
\* engine (cannon-es, not part of the repository) and ends somewhere in
\* target[o]; the kinematic ring bodies have no velocity and stay
PhysicsMove(target) ==
    /\ pc = "physics"
    /\ bodyPos' \in [Objs -> UNION {target[o] : o \in Objs}
                              \cup {bodyPos[o] : o \in Objs}]
    /\ \A o \in Objs :
          IF o \in physBodies
          THEN bodyPos'[o] \in target[o]
          ELSE bodyPos'[o] = bodyPos[o]
    /\ pc' = "loop"
    /\ idx' = 1
    /\ UNCHANGED <<dt, keys, holeVars, objects, sceneChildren, physBodies,
                   meshPos, frames, keyEvents, rechecked,
                   visuals, drawn, sinceKey,
                   lastTime, sinceFrame>>

\* a step that leaves each body where it is or at one of PhysPositions that
\* is not higher: PhysPositions are below the ground, where nothing holds a
\* falling body up
PhysicsStep ==
    PhysicsMove([o \in Objs |->
        {p \in PhysPositions : p.y <= bodyPos[o].y} \cup {bodyPos[o]}])

\* a step in which each body drops to the top face of the ring (y = 0) under
\* it and rests there
PhysicsSettle ==
    PhysicsMove([o \in Objs |-> {Vec3(bodyPos[o].x, 0, bodyPos[o].z)}])

\* the mutated check: the body is removed, the mesh stays in the scene
checkSwallowBodyOnly(o, m) ==
    /\ IF SwallowTest(m, holePos, radius)
       THEN /\ physBodies' = physBodies \ {o}
            /\ sceneChildren' = sceneChildren
       ELSE UNCHANGED <<physBodies, sceneChildren>>
    /\ UNCHANGED holeVars

\* the mutated check: every passed test grows the hole
checkSwallowGrow(o, m) ==
    IF SwallowTest(m, holePos, radius)
    THEN /\ physBodies' = physBodies \ {o}
         /\ sceneChildren' = sceneChildren \ {o}
         /\ radius' = radius + 10
         /\ groundBodies' = RingPlacement(holePos, radius')
         /\ UNCHANGED <<holePos, currentSpeed>>
    ELSE UNCHANGED <<physBodies, sceneChildren, holeVars>>

\* the mutated check: every passed test shrinks the hole
checkSwallowShrink(o, m) ==
    IF SwallowTest(m, holePos, radius)
    THEN /\ physBodies' = physBodies \ {o}
         /\ sceneChildren' = sceneChildren \ {o}
         /\ radius' = radius - 10
         /\ groundBodies' = RingPlacement(holePos, radius')
         /\ UNCHANGED <<holePos, currentSpeed>>
    ELSE UNCHANGED <<physBodies, sceneChildren, holeVars>>

\* the mutated check: a passed test removes every spawned object
checkSwallowSweep(o, m) ==
    /\ IF SwallowTest(m, holePos, radius)
       THEN /\ physBodies' = physBodies \ Objs
            /\ sceneChildren' = sceneChildren \ Objs
       ELSE UNCHANGED <<physBodies, sceneChildren>>
    /\ UNCHANGED holeVars

\* Hole.checkSwallow(mesh, body) for object o whose mesh is at m
checkSwallow(o, m) ==
    /\ IF SwallowTest(m, holePos, radius)
       THEN /\ physBodies' = physBodies \ {o}
            /\ sceneChildren' = sceneChildren \ {o}
       ELSE UNCHANGED <<physBodies, sceneChildren>>
    /\ UNCHANGED holeVars

\* the mutated pass: the swallow check runs before the sync, on the mesh
\* position of the previous tick
SyncAndCheckStale ==
    /\ pc = "loop"
    /\ idx <= Len(objects)
    /\ LET o == objects[idx]
       IN  /\ meshPos' = [meshPos EXCEPT ![o] = bodyPos[o]]
           /\ checkSwallow(o, meshPos[o])
    /\ idx' = idx + 1
    /\ UNCHANGED <<pc, dt, keys, objects, bodyPos, frames, keyEvents, rechecked,
                   visuals, drawn, sinceKey,
                   lastTime, sinceFrame>>

\* one pass of the for..of loop of World.update: sync, then the swallow check
SyncAndCheck ==
    /\ pc = "loop"
    /\ idx <= Len(objects)
    /\ LET o == objects[idx]
       IN  /\ meshPos' = [meshPos EXCEPT ![o] = bodyPos[o]]
           /\ checkSwallow(o, bodyPos[o])
    /\ idx' = idx + 1
    /\ UNCHANGED <<pc, dt, keys, objects, bodyPos, frames, keyEvents, rechecked,
                   visuals, drawn, sinceKey,
                   lastTime, sinceFrame>>

\* the mutated filter: the test on mesh.parent is inverted
CleanupInverted ==
    /\ pc = "loop"
    /\ idx > Len(objects)
    /\ objects' = SelectSeq(objects, LAMBDA o : o \notin sceneChildren)
    /\ pc' = "hole"
    /\ UNCHANGED <<dt, keys, holeVars, idx, sceneChildren, physBodies,
                   bodyPos, meshPos, frames, keyEvents, rechecked,
                   visuals, drawn, sinceKey,
                   lastTime, sinceFrame>>

\* the mutated filter: every entry is kept
CleanupKeepAll ==
    /\ pc = "loop"
    /\ idx > Len(objects)
    /\ objects' = objects
    /\ pc' = "hole"
    /\ UNCHANGED <<dt, keys, holeVars, idx, sceneChildren, physBodies,
                   bodyPos, meshPos, frames, keyEvents, rechecked,
                   visuals, drawn, sinceKey,
                   lastTime, sinceFrame>>

\* the mutated filter: it can run while the last entry of the loop is still
\* to be visited
CleanupEarly ==
    /\ pc = "loop"
    /\ idx >= Len(objects)
    /\ objects' = SelectSeq(objects, LAMBDA o : o \in sceneChildren)
    /\ pc' = "hole"
    /\ UNCHANGED <<dt, keys, holeVars, idx, sceneChildren, physBodies,
                   bodyPos, meshPos, frames, keyEvents, rechecked,
                   visuals, drawn, sinceKey,
                   lastTime, sinceFrame>>

\* the filter after the loop: entries whose mesh has no parent are dropped
Cleanup ==
    /\ pc = "loop"
    /\ idx > Len(objects)
    /\ objects' = SelectSeq(objects, LAMBDA o : o \in sceneChildren)
    /\ pc' = "hole"
    /\ UNCHANGED <<dt, keys, holeVars, idx, sceneChildren, physBodies,
                   bodyPos, meshPos, frames, keyEvents, rechecked,
                   visuals, drawn, sinceKey,
                   lastTime, sinceFrame>>

\* the mutated update: the ring is placed before the input is handled
HoleUpdateStale ==
    /\ pc = "hole"
    /\ groundBodies' = RingPlacement(holePos, radius)
    /\ currentSpeed' = NewSpeed(keys, currentSpeed, dt)
    /\ holePos' = NewPos(holePos, currentSpeed', dt)
    /\ radius' = radius
    /\ pc' = "render"
    /\ UNCHANGED <<dt, keys, objects, idx, sceneChildren, physBodies,
                   bodyPos, meshPos, frames, keyEvents, rechecked,
                   visuals, drawn, sinceKey,
                   lastTime, sinceFrame>>

\* the mutated update: the position is advanced by the speed of the
\* previous tick
HoleUpdatePosFirst ==
    /\ pc = "hole"
    /\ holePos' = NewPos(holePos, currentSpeed, dt)
    /\ currentSpeed' = NewSpeed(keys, currentSpeed, dt)
    /\ groundBodies' = RingPlacement(holePos', radius)
    /\ radius' = radius
    /\ pc' = "render"
    /\ UNCHANGED <<dt, keys, objects, idx, sceneChildren, physBodies,
                   bodyPos, meshPos, frames, keyEvents, rechecked,
                   visuals, drawn, sinceKey,
                   lastTime, sinceFrame>>

\* Hole.update(dt): handleInput, then updatePhysicsHolePos
HoleUpdate ==
    /\ pc = "hole"
    /\ currentSpeed' = NewSpeed(keys, currentSpeed, dt)
    /\ holePos' = NewPos(holePos, currentSpeed', dt)
    /\ groundBodies' = RingPlacement(holePos', radius)
    /\ radius' = radius
    /\ pc' = "render"
    /\ UNCHANGED <<dt, keys, objects, idx, sceneChildren, physBodies,
                   bodyPos, meshPos, frames, keyEvents, rechecked,
                   visuals, drawn, sinceKey,
                   lastTime, sinceFrame>>

\* renderer.render(scene, camera): the stencil buffer is cleared and the
\* meshes are drawn in render order; the tick is over
Render ==
    /\ pc = "render"
    /\ drawn' = RenderFrame(visuals, holePos)
    /\ pc' = "idle"
    /\ UNCHANGED <<dt, keys, holeVars, objects, idx, sceneChildren,
                   physBodies, bodyPos, meshPos, frames, keyEvents, rechecked,
                   visuals, sinceKey,
                   lastTime, sinceFrame>>

Next ==
    \/ \E k \in PlayKeys : KeyDown(k)
    \/ \E k \in PlayKeys : KeyUp(k)
    \/ \E e \in Elapsed : Animate(e)
    \/ PhysicsStep
    \/ SyncAndCheck
    \/ Cleanup
    \/ HoleUpdate
    \/ Render

Spec == Init /\ [][Next]_vars

----------------------------------------------------------------------------
(* SpecApi: the World program, plus any other caller of the public        *)
(* Hole.checkSwallow between two ticks, on any spawned object               *)

CheckSwallowCall(o) ==
    /\ pc = "idle"
    /\ checkSwallow(o, meshPos[o])
    /\ rechecked' = IF o \notin physBodies /\ o \notin sceneChildren
                    THEN rechecked \cup {o}
                    ELSE rechecked
    /\ UNCHANGED <<pc, dt, keys, objects, idx, bodyPos, meshPos, frames,
                   keyEvents, visuals, drawn, sinceKey,
                   lastTime, sinceFrame>>

NextApi ==
    \/ Next
    \/ \E o \in Objs : CheckSwallowCall(o)

SpecApi == Init /\ [][NextApi]_vars

----------------------------------------------------------------------------
(* SpecDrive: the player presses direction keys and keeps them held, every  *)
(* frame takes longer than the cap, the objects rest on the ground; the    *)
(* hole is followed until it is MaxDrive away from the origin               *)

DriveElapsed == {250}

HoldKey(k) ==
    /\ pc = "idle"
    /\ k \notin keys
    /\ keys' = keys \cup {k}
    /\ UNCHANGED <<pc, dt, holeVars, objects, idx, sceneChildren, physBodies,
                   bodyPos, meshPos, frames, keyEvents, rechecked,
                   visuals, drawn, sinceKey,
                   lastTime, sinceFrame>>

AnimateDrive(e) ==
    /\ Abs(holePos.x) <= MaxDrive
    /\ Abs(holePos.z) <= MaxDrive
    /\ AnimateStart(e)
    /\ UNCHANGED <<frames, sinceKey, sinceFrame>>

NextDrive ==
    \/ \E k \in {"ArrowRight", "KeyS"} : HoldKey(k)
    \/ \E e \in DriveElapsed : AnimateDrive(e)
    \/ PhysicsSettle
    \/ SyncAndCheck
    \/ Cleanup
    \/ HoleUpdate
    \/ Render

SpecDrive == Init /\ [][NextDrive]_vars

----------------------------------------------------------------------------
(* SpecMove: the player presses and releases three keys freely between the *)
(* ticks, two of them of opposite directions; the frame step varies from   *)
(* tick to tick; the objects rest on the ground, out of the hole's way     *)

\* a construction that spawned the objects at (-3, 4), where no run of
\* SpecMove, SpecKeys or SpecHold takes the opening
InitAside ==
    /\ Init
    /\ \A o \in Objs : bodyPos[o] = Vec3(-300, spawnY, 400)

MoveKeys == {"ArrowUp", "KeyS", "KeyA"}

ReleaseKey(k) ==
    /\ pc = "idle"
    /\ k \in keys
    /\ keys' = keys \ {k}
    /\ UNCHANGED <<pc, dt, holeVars, objects, idx, sceneChildren, physBodies,
                   bodyPos, meshPos, frames, keyEvents, rechecked,
                   visuals, drawn, sinceKey,
                   lastTime, sinceFrame>>

AnimateMove(e) ==
    /\ frames < MaxMoveFrames
    /\ frames' = frames + 1
    /\ AnimateStart(e)
    /\ UNCHANGED <<sinceKey, sinceFrame>>

NextMove ==
    \/ \E k \in MoveKeys : HoldKey(k)
    \/ \E k \in MoveKeys : ReleaseKey(k)
    \/ \E e \in Elapsed : AnimateMove(e)
    \/ PhysicsSettle
    \/ SyncAndCheck
    \/ Cleanup
    \/ HoleUpdate
    \/ Render

SpecMove == InitAside /\ [][NextMove]_vars

----------------------------------------------------------------------------
(* SpecKeys: the player presses and releases any of the eight key codes    *)
(* between the ticks; every frame takes longer than the cap                *)

AnimateKeys(e) ==
    /\ frames < MaxKeyFrames
    /\ frames' = frames + 1
    /\ AnimateStart(e)
    /\ UNCHANGED <<sinceKey, sinceFrame>>

NextKeys ==
    \/ \E k \in Keys : HoldKey(k)
    \/ \E k \in Keys : ReleaseKey(k)
    \/ \E e \in DriveElapsed : AnimateKeys(e)
    \/ PhysicsSettle
    \/ SyncAndCheck
    \/ Cleanup
    \/ HoleUpdate
    \/ Render

SpecKeys == InitAside /\ [][NextKeys]_vars

----------------------------------------------------------------------------
(* SpecHold: the frame step is the same in every tick; from rest the player *)
(* presses one direction key, holds it, and releases it once the hole      *)
(* moves at full speed; the run is followed until MaxHold ms have passed   *)
(* since the last key event                                                *)

\* the frame steps of the runs, in ms
FixedSteps == {20, 30, 50, 100}

HoldKeys == {"KeyW", "ArrowDown", "KeyA", "ArrowRight"}

PressFromRest(k) ==
    /\ pc = "idle"
    /\ keyEvents = 0
    /\ keys' = keys \cup {k}
    /\ keyEvents' = 1
    /\ sinceKey' = 0
    /\ UNCHANGED <<pc, dt, holeVars, objects, idx, sceneChildren, physBodies,
                   bodyPos, meshPos, frames, rechecked, visuals, drawn,
                   lastTime, sinceFrame>>

ReleaseAtFullSpeed(k) ==
    /\ pc = "idle"
    /\ keyEvents = 1
    /\ k \in keys
    /\ LengthSq(currentSpeed.x, currentSpeed.y) = maxSpeed * maxSpeed
    /\ keys' = keys \ {k}
    /\ keyEvents' = 2
    /\ sinceKey' = 0
    /\ UNCHANGED <<pc, dt, holeVars, objects, idx, sceneChildren, physBodies,
                   bodyPos, meshPos, frames, rechecked, visuals, drawn,
                   lastTime, sinceFrame>>

\* a tick whose step is the step of the ticks before it
AnimateFixed(e) ==
    /\ sinceKey < MaxHold
    /\ dt = 0 \/ dt = Min(e, dtCap)
    /\ AnimateStart(e)
    /\ sinceKey' = sinceKey + dt'
    /\ UNCHANGED <<frames, sinceFrame>>

NextHold ==
    \/ \E k \in HoldKeys : PressFromRest(k)
    \/ \E k \in HoldKeys : ReleaseAtFullSpeed(k)
    \/ \E e \in FixedSteps : AnimateFixed(e)
    \/ PhysicsSettle
    \/ SyncAndCheck
    \/ Cleanup
    \/ HoleUpdate
    \/ Render

SpecHold == InitAside /\ [][NextHold]_vars

----------------------------------------------------------------------------
(* SpecPause: the frames come at the display rate, at the cap, or after a  *)
(* pause of a minute (a tab in the background gets no animation frame);    *)
(* the player holds and releases one key; the objects rest out of the way  *)

PauseElapsed == {16, 100, 60000}

PauseKeys == {"KeyD"}

AnimatePause(e) ==
    /\ frames < MaxPauseFrames
    /\ frames' = frames + 1
    /\ AnimateStart(e)
    /\ sinceFrame' = e
    /\ UNCHANGED sinceKey

NextPause ==
    \/ \E k \in PauseKeys : HoldKey(k)
    \/ \E k \in PauseKeys : ReleaseKey(k)
    \/ \E e \in PauseElapsed : AnimatePause(e)
    \/ PhysicsSettle
    \/ SyncAndCheck
    \/ Cleanup
    \/ HoleUpdate
    \/ Render

SpecPause == InitAside /\ [][NextPause]_vars

----------------------------------------------------------------------------
(* Vocabulary of the properties *)

\* the set of entries of World.objects
Registered == {objects[n] : n \in 1..Len(objects)}

\* horizontal distance from m to the hole centre hp, plus the object radius
\* 0.5, is strictly less than the hole radius r
FullyInside(m, hp, r) ==
    /\ r > 50
    /\ (m.x - hp.x) * (m.x - hp.x) + (m.z - hp.z) * (m.z - hp.z)
          < (r - 50) * (r - 50)

\* m has fallen below the depth threshold y = -5
BelowDepth(m) == m.y < -500

\* the loop of World.update is about to sync and check object o
Checking(o) == pc = "loop" /\ idx <= Len(objects) /\ objects[idx] = o

\* the loop of World.update has just synced and checked object o
JustChecked(o) == pc = "loop" /\ idx > 1 /\ objects[idx - 1] = o

----------------------------------------------------------------------------
(* Swallow detection *)

\* C1: whenever the loop of World.update checks an object that is, at the
\* time of the call, fully inside the hole horizontally (distance + 0.5 <
\* radius) and below y = -5, checkSwallow removes it from the physics world
\* and from the scene.
C1_SwallowRemoves ==
    [][\A o \in Objs :
          (Checking(o) /\ FullyInside(bodyPos[o], holePos, radius)
                       /\ BelowDepth(bodyPos[o]))
          => (o \notin physBodies' /\ o \notin sceneChildren')]_vars

\* an object at distance 0 and y = -6 of a hole of radius 1.5 has just been
\* checked and is gone from both
C1_Witness ==
    \E o \in Objs :
        /\ JustChecked(o)
        /\ radius = 150 /\ holePos = Vec3(0, 0, 0)
        /\ meshPos[o] = Vec3(0, -600, 0)
        /\ o \notin physBodies /\ o \notin sceneChildren

\* C2: a check never removes an object for which a swallow condition fails:
\* when distance + 0.5 >= radius, or y >= -5, the object's membership of the
\* physics world and of the scene is left as it was.
C2_NoSwallowUnlessBoth ==
    [][\A o \in Objs :
          (Checking(o) /\ (~FullyInside(bodyPos[o], holePos, radius)
                           \/ ~BelowDepth(bodyPos[o])))
          => /\ (o \in physBodies') = (o \in physBodies)
             /\ (o \in sceneChildren') = (o \in sceneChildren)]_vars

\* both objects have been checked in one tick and are still in place: one at
\* distance 1.0 (1.0 + 0.5 = radius) and y = -6, the other at distance 0 and
\* y = -5 exactly
C2_Witness ==
    /\ pc = "loop" /\ idx = 3
    /\ radius = 150 /\ holePos = Vec3(0, 0, 0)
    /\ \E o, q \in Objs :
          /\ meshPos[o] = Vec3(60, -600, 80)
          /\ meshPos[q] = Vec3(0, -500, 0)
          /\ {o, q} \subseteq physBodies /\ {o, q} \subseteq sceneChildren

\* C3 as stated: no frame ends with the swallow condition true for an
\* object that is still in the physics world or in the scene.
C3_NoFrameEndsSwallowable ==
    pc = "idle" =>
        \A o \in Objs :
            (FullyInside(bodyPos[o], holePos, radius) /\ BelowDepth(bodyPos[o]))
            => (o \notin physBodies /\ o \notin sceneChildren)

\* C3 as amended: in every tick, once an object has been synced and checked
\* and until Hole.update moves the hole, the swallow condition is true only
\* of objects that are gone from the physics world and from the scene.
C3_SwallowedWhenChecked ==
    \A o \in Objs :
        (/\ \/ pc = "hole"
            \/ (pc = "loop" /\ \E n \in 1..(idx - 1) : objects[n] = o)
         /\ FullyInside(bodyPos[o], holePos, radius)
         /\ BelowDepth(bodyPos[o]))
        => (o \notin physBodies /\ o \notin sceneChildren)

\* in the second tick an object at distance 1.2 from the origin and y = -6
\* is gone after its check, the hole having moved 0.4 towards it in the
\* first tick
C3_Witness ==
    /\ pc = "hole" /\ frames = 2
    /\ holePos = Vec3(40, 0, 0)
    /\ \E o \in Objs :
          /\ meshPos[o] = Vec3(120, -600, 0)
          /\ o \notin physBodies /\ o \notin sceneChildren

\* C4: a call of checkSwallow on an object whose body and mesh are already
\* removed changes neither the bodies of the physics world, nor the children
\* of the scene, nor World.objects, nor the hole.
C4_RecheckIsNoOp ==
    [][\A o \in Objs :
          (CheckSwallowCall(o) /\ o \notin physBodies /\ o \notin sceneChildren)
          => UNCHANGED <<physBodies, sceneChildren, objects, holePos,
                         currentSpeed, radius, groundBodies>>]_vars

\* checkSwallow has been called again on a removed object for which the
\* swallow condition still holds
C4_Witness ==
    \E o \in rechecked :
        /\ o \notin physBodies /\ o \notin sceneChildren
        /\ FullyInside(meshPos[o], holePos, radius)
        /\ BelowDepth(meshPos[o])

\* C5: an object that is out of the physics world, of the scene or of
\* World.objects stays out; it leaves the physics world and the scene only
\* in a check that finds it fully inside the hole and below y = -5, and
\* World.objects only once it is out of both.
C5_DestroyedOnceForGood ==
    [][\A o \in Objs :
          /\ (o \notin physBodies => o \notin physBodies')
          /\ (o \notin sceneChildren => o \notin sceneChildren')
          /\ (o \notin Registered => o \notin Registered')
          /\ (\/ (o \in physBodies /\ o \notin physBodies')
              \/ (o \in sceneChildren /\ o \notin sceneChildren'))
             => (/\ Checking(o)
                 /\ FullyInside(bodyPos[o], holePos, radius)
                 /\ BelowDepth(bodyPos[o]))
          /\ (o \in Registered /\ o \notin Registered')
             => (/\ o \notin physBodies /\ o \notin sceneChildren
                 /\ FullyInside(meshPos[o], holePos, radius)
                 /\ BelowDepth(meshPos[o]))]_vars

\* the loop of the second tick has run without an object that the first
\* tick swallowed, and the object is still out of all three
C5_Witness ==
    /\ frames = 2 /\ pc = "hole"
    /\ \E o \in Objs :
          /\ o \notin Registered
          /\ o \notin physBodies /\ o \notin sceneChildren
          /\ Len(objects) = 1

----------------------------------------------------------------------------
(* Ground ring *)

\* the half extent of a ring box on x and z (setupPhysics: groundSize / 2)
HalfExtent == groundSize \div 2

\* the ground-plane footprint of the box centred at c meets the interior of
\* the square of half-width r centred at hp
CoversOpening(c, hp, r) ==
    /\ c.x - HalfExtent < hp.x + r
    /\ c.x + HalfExtent > hp.x - r
    /\ c.z - HalfExtent < hp.z + r
    /\ c.z + HalfExtent > hp.z - r

\* the footprints of the boxes centred at c and d have a common interior
\* point
Overlap(c, d) ==
    /\ Abs(c.x - d.x) < 2 * HalfExtent
    /\ Abs(c.z - d.z) < 2 * HalfExtent

\* C6: the four ring boxes sit at hole.x + radius + 50, hole.x - radius - 50,
\* hole.z - radius - 50 and hole.z + radius + 50, in this order, each on the
\* hole's other coordinate, after construction and after every Hole.update.
C6_RingAtFormula ==
    /\ groundBodies[0].x = holePos.x + radius + 5000
    /\ groundBodies[0].z = holePos.z
    /\ groundBodies[1].x = holePos.x - radius - 5000
    /\ groundBodies[1].z = holePos.z
    /\ groundBodies[2].x = holePos.x
    /\ groundBodies[2].z = holePos.z - radius - 5000
    /\ groundBodies[3].x = holePos.x
    /\ groundBodies[3].z = holePos.z + radius + 5000

\* Hole.update has run in two ticks and has moved the hole
C6_Witness ==
    /\ pc = "render" /\ frames = 2
    /\ holePos # Vec3(0, 0, 0)
    /\ currentSpeed # Vec2(0, 0)

\* C7: whenever the physics step is about to run, the ring boxes are where
\* the placement puts them for the hole position and radius of that moment.
C7_RingFreshAtPhysicsStep ==
    pc = "physics" =>
        \A n \in 0..3 : groundBodies[n] = RingPlacement(holePos, radius)[n]

\* the physics step of the second tick is about to run and the first tick
\* has moved the hole
C7_Witness ==
    /\ pc = "physics" /\ frames = 2
    /\ holePos # Vec3(0, 0, 0)

\* C8: no ring box covers a point of the interior of the square of
\* half-width radius around the hole, and the inner edge of each box is at
\* least radius away from the hole centre.
C8_OpeningFree ==
    /\ \A n \in 0..3 : ~CoversOpening(groundBodies[n], holePos, radius)
    /\ groundBodies[0].x - HalfExtent - holePos.x >= radius
    /\ holePos.x - (groundBodies[1].x + HalfExtent) >= radius
    /\ holePos.z - (groundBodies[2].z + HalfExtent) >= radius
    /\ groundBodies[3].z - HalfExtent - holePos.z >= radius

\* the hole has been driven more than 10 units along both axes
C8_Witness ==
    /\ pc = "idle"
    /\ holePos.x > 1000 /\ holePos.z > 1000

\* C9 as stated: no two distinct ring boxes overlap.
C9_NoTwoOverlap ==
    \A m, n \in 0..3 :
        m # n => ~Overlap(groundBodies[m], groundBodies[n])

\* C9 as amended: the two X boxes do not overlap each other, nor do the two
\* Z boxes; an X box and a Z box share exactly the corner square of side
\* 50 - radius beyond the opening.
C9_OppositeDisjoint ==
    /\ ~Overlap(groundBodies[0], groundBodies[1])
    /\ ~Overlap(groundBodies[2], groundBodies[3])
    /\ \A m \in {0, 1}, n \in {2, 3} :
          /\ 2 * HalfExtent - Abs(groundBodies[m].x - groundBodies[n].x)
                = HalfExtent - radius
          /\ 2 * HalfExtent - Abs(groundBodies[m].z - groundBodies[n].z)
                = HalfExtent - radius

\* the ring has been re-placed while the hole moves diagonally at full speed
C9_Witness ==
    /\ pc = "render"
    /\ holePos.x > 0 /\ holePos.z > 0
    /\ LengthSq(currentSpeed.x, currentSpeed.y) > 790 * 790

\* ground-plane points of the playable area, |x| <= 9 and |z| <= 9
PlayPoints ==
    {Vec3(x, 0, z) : x \in {-900, -450, 0, 450, 900},
                     z \in {-900, -450, 0, 450, 900}}

\* p lies in the square opening
InOpening(p) ==
    Abs(p.x - holePos.x) < radius /\ Abs(p.z - holePos.z) < radius

\* p lies in the footprint of a ring box
Supported(p) ==
    \E n \in 0..3 :
        /\ Abs(p.x - groundBodies[n].x) <= HalfExtent
        /\ Abs(p.z - groundBodies[n].z) <= HalfExtent

\* C10: every point of the playable area that is outside the opening is in
\* the footprint of a ring box, wherever the updates have taken the hole.
C10_PlayAreaSupported ==
    \A p \in PlayPoints : InOpening(p) \/ Supported(p)

----------------------------------------------------------------------------
(* Hole state: speed cap and radius *)

\* C11: the magnitude of currentSpeed is at most maxSpeed = 8 after
\* construction and after every Hole.update, whatever keys are held and
\* whatever the time step of the tick.
C11_SpeedCapped ==
    currentSpeed.x * currentSpeed.x + currentSpeed.y * currentSpeed.y
        <= 800 * 800

\* Hole.update has just cut a diagonal velocity of (8.46, 8.46), reached in
\* three ticks of 0.1 s with two keys held, back to length 8
C11_Witness ==
    /\ pc = "render" /\ frames = 3 /\ dt = 100
    /\ Cardinality(keys) = 2
    /\ Abs(currentSpeed.x) = Abs(currentSpeed.y)
    /\ Abs(currentSpeed.x) >= 560

\* C12: no step of the program makes the hole radius smaller.
C12_RadiusNeverDecreases ==
    [][radius' >= radius]_vars

\* two ticks with their swallow checks and updates have run, an object has
\* been swallowed and the hole has moved
C12_Witness ==
    /\ pc = "idle" /\ frames = 2
    /\ \E o \in Objs : o \notin physBodies /\ o \notin sceneChildren
    /\ holePos # Vec3(0, 0, 0)
    /\ radius >= 150

\* C13: a check that swallows an object leaves the hole radius strictly
\* greater than it was, and the +X ring box farther from the hole centre.
C13_SwallowGrows ==
    [][\A o \in Objs :
          (/\ Checking(o) /\ o \in physBodies
           /\ FullyInside(bodyPos[o], holePos, radius)
           /\ BelowDepth(bodyPos[o])
           /\ o \notin physBodies')
          => (/\ radius' > radius
              /\ groundBodies'[0].x - holePos'.x
                    > groundBodies[0].x - holePos.x)]_vars

----------------------------------------------------------------------------
(* The stencil triple *)

\* the renderer has drawn a frame and the tick is over
FrameDrawn == pc = "idle" /\ drawn # [p \in Pixels |-> {}]

\* sample p shows a point of the mask disk
UnderMask(p) ==
    (p.x - holePos.x) * (p.x - holePos.x) + (p.y - holePos.z) * (p.y - holePos.z)
        <= visuals.mask.radius * visuals.mask.radius

\* C14: in every state the renderOrder of the mask is -1, of the ground 0
\* and of the interior +1, so the three are submitted in the order mask,
\* ground, interior.
C14_RenderOrder ==
    /\ visuals.mask.renderOrder = -1
    /\ visuals.ground.renderOrder = 0
    /\ visuals.interior.renderOrder = 1
    /\ visuals.mask.renderOrder < visuals.ground.renderOrder
    /\ visuals.ground.renderOrder < visuals.interior.renderOrder
    /\ DrawOrder(visuals) = <<"mask", "ground", "interior">>

\* two frames have been drawn, with the hole moved and an object swallowed
C14_Witness ==
    /\ FrameDrawn /\ frames = 2
    /\ holePos # Vec3(0, 0, 0)
    /\ \E o \in Objs : o \notin sceneChildren
    /\ \E p \in Pixels : "mask" \in drawn[p]

\* C15: in every frame the renderer draws, each sample passes exactly one of
\* the stencil tests of ground and interior: the interior's if the mask
\* covers the sample, the ground's if it does not.
C15_ExactlyOneShown ==
    [][(pc = "render" /\ pc' = "idle") =>
          \A p \in Pixels :
              /\ ("interior" \in drawn'[p]) = UnderMask(p)
              /\ ("ground" \in drawn'[p]) = ~UnderMask(p)
              /\ ("interior" \in drawn'[p]) # ("ground" \in drawn'[p])]_vars

\* a frame drawn with the hole away from the origin: the sample at (1, 0)
\* is under the mask and passed the interior's test, the sample at (-2, 1)
\* is not and passed the ground's
C15_Witness ==
    /\ FrameDrawn
    /\ holePos.x > 0
    /\ drawn[Vec2(100, 0)] = {"mask", "interior"}
    /\ drawn[Vec2(-200, 100)] = {"ground"}

\* C16: in every state the radius of the mask disk and of the interior shell
\* is the hole radius, the one the swallow test reads and the one that
\* separates the inner edge of each ring box from the hole centre.
C16_VisualRadiusIsRadius ==
    /\ visuals.mask.radius = radius
    /\ visuals.interior.radius = radius
    /\ groundBodies[0].x - 5000 - holePos.x = visuals.mask.radius
    /\ holePos.x - (groundBodies[1].x + 5000) = visuals.mask.radius
    /\ holePos.z - (groundBodies[2].z + 5000) = visuals.interior.radius
    /\ groundBodies[3].z - 5000 - holePos.z = visuals.interior.radius

\* a frame has been drawn after a swallow and after the ring was re-placed
\* around the moved hole
C16_Witness ==
    /\ FrameDrawn
    /\ \E o \in Objs : o \notin physBodies
    /\ currentSpeed # Vec2(0, 0)
    /\ groundBodies[0].x # 5150

----------------------------------------------------------------------------
(* Movement *)

\* the directions a key state asks for, by either of their two codes
Dirs(ks) ==
    {d \in {"up", "down", "left", "right"} :
        \/ d = "up"    /\ ("ArrowUp" \in ks \/ "KeyW" \in ks)
        \/ d = "down"  /\ ("ArrowDown" \in ks \/ "KeyS" \in ks)
        \/ d = "left"  /\ ("ArrowLeft" \in ks \/ "KeyA" \in ks)
        \/ d = "right" /\ ("ArrowRight" \in ks \/ "KeyD" \in ks)}

\* the key states that ask for the directions ks asks for: for each of them
\* one of its codes or both, and no code of another direction
SameDirs(ks) ==
    LET Codes(d, a, b) == IF d \in Dirs(ks) THEN {{a}, {b}, {a, b}} ELSE {{}}
    IN  {u \cup d \cup l \cup r :
            u \in Codes("up", "ArrowUp", "KeyW"),
            d \in Codes("down", "ArrowDown", "KeyS"),
            l \in Codes("left", "ArrowLeft", "KeyA"),
            r \in Codes("right", "ArrowRight", "KeyD")}

\* opposite directions cancel: the key state asks for no movement
NoInput(ks) ==
    /\ ("up" \in Dirs(ks)) = ("down" \in Dirs(ks))
    /\ ("left" \in Dirs(ks)) = ("right" \in Dirs(ks))

\* C17: with one direction held from rest and the same step dt in every
\* tick, the speed after an update is 40 times the time held as long as
\* that is less than 0.2 s, and exactly 8 from 0.2 s on; from then on each
\* update moves the hole by exactly 8 * dt.
C17_HoldReachesCap ==
    [][(pc = "hole" /\ keyEvents = 1) =>
          LET v  == currentSpeed'
              ax == holePos'.x - holePos.x
              az == holePos'.z - holePos.z
          IN  IF sinceKey >= 200
              THEN /\ v.x * v.x + v.y * v.y = 800 * 800
                   /\ 25 * (ax * ax + az * az) = 16 * dt * dt
                   /\ 1000 * ax = v.x * dt /\ 1000 * az = v.y * dt
              ELSE v.x * v.x + v.y * v.y = (4 * sinceKey) * (4 * sinceKey)]_vars

\* a key has been held for at least 0.5 s of ticks of 0.03 s, which do not
\* divide 0.2 s: the hole moves at speed 8
C17_Witness ==
    /\ pc = "render" /\ keyEvents = 1 /\ keys # {}
    /\ dt = 30 /\ sinceKey >= 500
    /\ Abs(currentSpeed.x) + Abs(currentSpeed.y) = 800

\* C18: after the key is released at speed 8, with the same step dt in
\* every tick, the speed after an update is 8 minus 20 times the time since
\* the release as long as that is less than 0.4 s, and exactly 0 from 0.4 s
\* on, where the hole stays.
C18_ReleaseStopsInTime ==
    [][(pc = "hole" /\ keyEvents = 2) =>
          LET v == currentSpeed'
          IN  IF sinceKey >= 400
              THEN v = Vec2(0, 0) /\ holePos' = holePos
              ELSE v.x * v.x + v.y * v.y
                      = (800 - 2 * sinceKey) * (800 - 2 * sinceKey)]_vars

\* the key was released at speed 8 at least 0.5 s of ticks of 0.03 s ago,
\* the hole is at rest away from the origin
C18_Witness ==
    /\ pc = "idle" /\ keyEvents = 2 /\ keys = {}
    /\ dt = 30 /\ sinceKey >= 500
    /\ currentSpeed = Vec2(0, 0)
    /\ holePos # Vec3(0, 0, 0)

\* C19: Hole.update gives the speed and the position it would give for any
\* other key state that asks for the same directions, by letter codes, arrow
\* codes or both; from rest, Up alone moves the hole to smaller z, Down to
\* greater z, Left to smaller x and Right to greater x, and nowhere else.
C19_AliasesAndDirections ==
    [][pc = "hole" =>
          /\ keys \in SameDirs(keys)
          /\ \A ks \in SameDirs(keys) :
                LET v == NewSpeed(ks, currentSpeed, dt)
                IN  v = currentSpeed' /\ NewPos(holePos, v, dt) = holePos'
          /\ currentSpeed = Vec2(0, 0) =>
                /\ Dirs(keys) = {"up"} =>
                      holePos'.z < holePos.z /\ holePos'.x = holePos.x
                /\ Dirs(keys) = {"down"} =>
                      holePos'.z > holePos.z /\ holePos'.x = holePos.x
                /\ Dirs(keys) = {"left"} =>
                      holePos'.x < holePos.x /\ holePos'.z = holePos.z
                /\ Dirs(keys) = {"right"} =>
                      holePos'.x > holePos.x /\ holePos'.z = holePos.z]_vars

\* an update has run with both codes of Up held, and has moved the hole to
\* smaller z
C19_Witness ==
    /\ pc = "render"
    /\ keys = {"ArrowUp", "KeyW"}
    /\ currentSpeed.y < 0 /\ currentSpeed.x = 0
    /\ holePos.z < 0 /\ holePos.x = 0

\* C20: in an update whose key state asks for no movement, the speed
\* becomes (0, 0) if it is below friction * dt = 20 * dt; otherwise it
\* loses 20 * dt of its length (to the 0.03 the fixed point resolves) and
\* keeps its direction; no component changes sign or grows.
C20_FrictionNoOvershoot ==
    [][(pc = "hole" /\ NoInput(keys)) =>
          LET v    == currentSpeed
              w    == currentSpeed'
              step == 2 * dt
          IN  IF v.x * v.x + v.y * v.y < step * step
              THEN w = Vec2(0, 0)
              ELSE /\ v.x * w.x >= 0 /\ v.y * w.y >= 0
                   /\ Abs(w.x) <= Abs(v.x) /\ Abs(w.y) <= Abs(v.y)
                   /\ Abs(v.x * w.y - v.y * w.x) <= Abs(v.x) + Abs(v.y)
                   /\ Length(w.x, w.y) >= Length(v.x, v.y) - step - 1
                   /\ Length(w.x, w.y) <= Length(v.x, v.y) - step + 3
                   /\ v.y = 0 => Abs(w.x) = Abs(v.x) - step
                   /\ v.x = 0 => Abs(w.y) = Abs(v.y) - step]_vars

\* friction has slowed a diagonal velocity down and then, in a longer tick
\* whose friction step is more than the speed left, has stopped the hole
C20_Witness ==
    /\ pc = "render" /\ keys = {} /\ frames = 3 /\ dt = 100
    /\ currentSpeed = Vec2(0, 0)
    /\ holePos = Vec3(-10, 0, -10)

----------------------------------------------------------------------------
(* The tick *)

\* the stages of one tick, each with the stage that follows it
TickOrder ==
    {<<"idle", "physics">>, <<"physics", "loop">>, <<"loop", "hole">>,
     <<"hole", "render">>, <<"render", "idle">>}

\* C21: a tick goes through its stages in one order: the physics step, then
\* one pass per registered object, in the order of World.objects and each
\* entry once, in which the mesh takes the body's position and the swallow
\* check follows on that position, then the cleanup once every entry has
\* been visited, then Hole.update (the speed and position from the input,
\* then the ring around the new position), then the render; the hole is
\* written by Hole.update only and the frame by the render only.
C21_TickOrder ==
    [][/\ pc' # pc => <<pc, pc'>> \in TickOrder
       /\ pc = "physics" =>
             /\ pc' = "loop" /\ idx' = 1
             /\ objects' = objects /\ meshPos' = meshPos
             /\ sceneChildren' = sceneChildren /\ physBodies' = physBodies
       /\ (pc = "loop" /\ pc' = "loop") =>
             /\ idx \in 1..Len(objects) /\ idx' = idx + 1
             /\ objects' = objects /\ bodyPos' = bodyPos
             /\ LET o == objects[idx]
                IN  /\ meshPos' = [meshPos EXCEPT ![o] = bodyPos[o]]
                    /\ o \in sceneChildren' <=>
                          /\ o \in sceneChildren
                          /\ ~SwallowTest(meshPos'[o], holePos, radius)
                    /\ sceneChildren \ {o} = sceneChildren' \ {o}
                    /\ physBodies \ {o} = physBodies' \ {o}
       /\ (pc = "loop" /\ pc' = "hole") =>
             /\ idx = Len(objects) + 1
             /\ objects' = SelectSeq(objects, LAMBDA o : o \in sceneChildren)
       /\ pc = "hole" =>
             /\ pc' = "render"
             /\ objects' = objects
             /\ holePos' = NewPos(holePos, NewSpeed(keys, currentSpeed, dt), dt)
             /\ groundBodies' = RingPlacement(holePos', radius)
       /\ pc = "render" => pc' = "idle" /\ objects' = objects
       /\ holeVars' # holeVars => pc = "hole"
       /\ objects' # objects => pc = "loop" /\ pc' = "hole"
       /\ drawn' # drawn => pc = "render"]_vars

\* two ticks have run to their end: the first visited both objects and
\* swallowed one, the second visited the one that was left, moved the hole
\* and drew the frame
C21_Witness ==
    /\ pc = "idle" /\ frames = 2
    /\ Len(objects) = 1 /\ idx = 2
    /\ holePos # Vec3(0, 0, 0)
    /\ FrameDrawn

\* C22: the step Game.animate hands to World.update is the real time since
\* the previous frame, cut to 0.1 s: never more than 0.1 s, and nothing of
\* an earlier, longer frame is added to it, because after every frame
\* lastTime is the time that frame read from the clock. No other step
\* writes the time step or lastTime.
C22_DtCapped ==
    [][/\ (pc = "idle" /\ pc' = "physics") =>
             /\ dt' <= dtCap
             /\ dt' = Min(sinceFrame', dtCap)
             /\ lastTime' = 0
       /\ (dt' # dt \/ lastTime' # lastTime) => pc = "idle" /\ pc' = "physics"
      ]_vars

\* the first frame came after 16 ms, with the key held, and moved the hole
\* by 0.01; the second came a minute later: its tick has run with 0.1 s,
\* which took the speed from 0.64 to 4.64 and the hole to 0.47, and
\* lastTime is the time that frame read
C22_Witness ==
    /\ pc = "render" /\ frames = 2
    /\ sinceFrame = 60000 /\ dt = dtCap /\ lastTime = 0
    /\ keys = {"KeyD"}
    /\ currentSpeed = Vec2(464, 0)
    /\ holePos = Vec3(47, 0, 0)

----------------------------------------------------------------------------
(* What checkSwallow leaves alone *)

\* the step is a pass of the loop of World.update, or removes a mesh or a
\* body: these are the steps in which checkSwallow runs and can act
CheckStep ==
    \/ pc = "loop" /\ pc' = "loop"
    \/ sceneChildren' # sceneChildren
    \/ physBodies' # physBodies

\* C23: a call of checkSwallow, from the loop of World.update or from
\* anywhere else, writes nothing but the removal of the object it checks:
\* the hole's position, velocity, radius and ring are as before, every
\* body is where it was, every mesh is where it was (in the loop, the
\* checked mesh is where the sync before the check put it), the entries of
\* World.objects are as before, and every other object is in the scene and
\* in the physics world exactly if it was.
C23_CheckSwallowFrame ==
    [][CheckStep =>
          /\ holeVars' = holeVars
          /\ bodyPos' = bodyPos
          /\ objects' = objects
          /\ pc = "idle" => meshPos' = meshPos
          /\ \E o \in Objs :
                /\ sceneChildren' \ {o} = sceneChildren \ {o}
                /\ physBodies' \ {o} = physBodies \ {o}
                /\ sceneChildren' \subseteq sceneChildren
                /\ physBodies' \subseteq physBodies
                /\ \A q \in Objs \ {o} : meshPos'[q] = meshPos[q]
                /\ pc = "loop" =>
                      /\ o = objects[idx]
                      /\ meshPos'[o] = bodyPos[o]]_vars

\* between two ticks, with the hole moving, a call of checkSwallow has
\* removed an object that is still registered; the other object is in the
\* scene and in the physics world
C23_Witness ==
    /\ pc = "idle"
    /\ currentSpeed # Vec2(0, 0)
    /\ holePos # Vec3(0, 0, 0)
    /\ groundBodies = RingPlacement(holePos, radius0)
    /\ \E o \in Registered :
          /\ o \notin sceneChildren /\ o \notin physBodies
          /\ meshPos[o] = bodyPos[o]
          /\ \E q \in Registered \ {o} :
                q \in sceneChildren /\ q \in physBodies

----------------------------------------------------------------------------
(* Registration *)

\* the spawned objects no swallow check has removed
NotSwallowed == {o \in Objs : o \in sceneChildren}

\* C24: outside the loop of World.update, so after every World.update and
\* after the construction, World.objects holds the spawned objects that
\* have not been swallowed, each once, and a spawned object is in the
\* scene, in the physics world and in World.objects, or in none of the
\* three; no step makes World.objects longer or registers an object again.
C24_RegistrationConsistent ==
    /\ [](pc # "loop" =>
            /\ Registered = NotSwallowed
            /\ Len(objects) = Cardinality(Registered)
            /\ \A o \in Objs :
                  /\ o \in Registered <=> o \in sceneChildren
                  /\ o \in Registered <=> o \in physBodies)
    /\ [][/\ Len(objects') <= Len(objects)
          /\ \A o \in Objs : o \in Registered' => o \in Registered]_vars

\* a World.update has ended in which one object was swallowed: it is in
\* none of the three places, the other object is in all three
C24_Witness ==
    /\ pc = "render" /\ frames = 1
    /\ objects = <<"o2">>
    /\ "o1" \notin sceneChildren /\ "o1" \notin physBodies
    /\ "o2" \in sceneChildren /\ "o2" \in physBodies

----------------------------------------------------------------------------
(* Opposing keys *)

\* one code of each direction the key state ks asks for on an axis that is
\* not cancelled by the opposite direction
NetKeys(ks) ==
    LET d == Dirs(ks)
    IN  (IF "up" \in d /\ "down" \notin d THEN {"ArrowUp"} ELSE {})
        \cup (IF "down" \in d /\ "up" \notin d THEN {"ArrowDown"} ELSE {})
        \cup (IF "left" \in d /\ "right" \notin d THEN {"ArrowLeft"} ELSE {})
        \cup (IF "right" \in d /\ "left" \notin d THEN {"ArrowRight"} ELSE {})

\* C25: opposite directions held together cancel. If what is left is no
\* direction (Up with Down, Left with Right, or all four), the update is
\* the update with no key held: friction, or a stop from less than
\* 20 * dt. If only one axis cancels, the update is the update with the
\* one direction of the other axis held: the speed gains 40 * dt along
\* that axis and nothing along the cancelled one, whose component is
\* changed only by the cap on the length.
C25_OpposingKeysCancel ==
    [][pc = "hole" =>
          LET v    == currentSpeed
              w    == currentSpeed'
              net  == NetKeys(keys)
              step == 4 * dt
          IN  /\ w = NewSpeed(net, v, dt)
              /\ holePos' = NewPos(holePos, NewSpeed(net, v, dt), dt)
              /\ NoInput(keys) =>
                    /\ net = {}
                    /\ v = Vec2(0, 0) => w = Vec2(0, 0) /\ holePos' = holePos
                    /\ Abs(w.x) <= Abs(v.x) /\ Abs(w.y) <= Abs(v.y)
              /\ (net = {"ArrowLeft"} /\ LengthSq(v.x - step, v.y)
                                             <= maxSpeed * maxSpeed) =>
                    w = Vec2(v.x - step, v.y)
              /\ (net = {"ArrowRight"} /\ LengthSq(v.x + step, v.y)
                                              <= maxSpeed * maxSpeed) =>
                    w = Vec2(v.x + step, v.y)
              /\ (net = {"ArrowUp"} /\ LengthSq(v.x, v.y - step)
                                           <= maxSpeed * maxSpeed) =>
                    w = Vec2(v.x, v.y - step)
              /\ (net = {"ArrowDown"} /\ LengthSq(v.x, v.y + step)
                                             <= maxSpeed * maxSpeed) =>
                    w = Vec2(v.x, v.y + step)]_vars

\* the hole was moving down at 4; Up was pressed with Down still held, and
\* the next update of 0.1 s has slowed the hole down to 2 by friction
C25_Witness ==
    /\ pc = "render" /\ frames = 2 /\ dt = 100
    /\ Dirs(keys) = {"up", "down"}
    /\ currentSpeed = Vec2(0, 200)
    /\ holePos = Vec3(0, 0, 60)

====
